---------------------------- MODULE Spec2Model ----------------------------
(***************************************************************************)
(* Commit aggregation, author filtering and grouping of git-digest        *)
(* (src/git_digest/utils/git.py, driven by src/git_digest/cli.py).        *)
(*                                                                         *)
(* Text is modelled as a sequence of one-character strings, so that        *)
(* lower-casing, concatenation and substring search are computed.  An      *)
(* optional argument is a record [k, d]: k = "none" is Python's None,      *)
(* k = "int" an integer d, k = "empty" the empty string, k = "abs" a date  *)
(* expression naming day d and k = "ago" the expression "<d> days ago".    *)
(* Time is counted in whole days.                                          *)
(***************************************************************************)
EXTENDS Integers, Sequences, FiniteSets, TLC

VARIABLES
    repo_paths,       \* digest(): the repository arguments
    since,            \* digest(): --since
    until,            \* digest(): --until
    days,             \* digest(): --days
    count,            \* digest(): --count
    pc,               \* position of the running call
    valid_paths,      \* validate_repositories: valid_paths
    error_messages,   \* validate_repositories: error_messages
    idx,              \* aggregate_commits_from_repos: index of the next repository
    repo_path,        \* aggregate_commits_from_repos: the loop variable
    branch,           \* aggregate_commits_from_repos: how the last iteration ended
    commits,          \* aggregate_commits_from_repos: list of the last successful retrieval
    all_commits,      \* aggregate_commits_from_repos: all_commits
    repo_stats,       \* aggregate_commits_from_repos: repo_stats
    errors_logged,    \* aggregate_commits_from_repos: logger.error lines
    commits_in,       \* filter_commits_by_authors: argument commits
    author_filters,   \* filter_commits_by_authors: argument author_filters
    filtered_commits, \* filter_commits_by_authors: first component of the result
    matches_dict,     \* filter_commits_by_authors: second component of the result
    authors,          \* digest(): the --authors arguments
    by_author,        \* digest(): --by-author
    parsed_authors,   \* digest(): parsed_authors
    digest_commits,   \* digest(): commits, after the optional author filtering
    warning,          \* digest(): which "No commits found" warning was logged
    summary_mode,     \* generate_and_display_summary: the summary that was produced
    author_commits,   \* group_commits_by_author: the result, in insertion order
    grouped_from,     \* which list the last group_commits_by_author call was given
    called,           \* the library functions called so far
    recap_idx,        \* git_recap aggregate_commits_from_repos: index of the next repository
    recap_all_commits,   \* git_recap aggregate_commits_from_repos: all_commits
    recap_repo_stats,    \* git_recap aggregate_commits_from_repos: repo_stats
    recap_errors_logged  \* git_recap aggregate_commits_from_repos: logger.error lines

vars == <<repo_paths, since, until, days, count, pc, valid_paths, error_messages,
          idx, repo_path, branch, commits, all_commits, repo_stats, errors_logged,
          commits_in, author_filters, filtered_commits, matches_dict,
          authors, by_author, parsed_authors, digest_commits, warning, summary_mode,
          author_commits, grouped_from, called,
          recap_idx, recap_all_commits, recap_repo_stats, recap_errors_logged>>

digestVars == <<repo_paths, since, until, days, count, authors, by_author>>
validateVars == <<valid_paths, error_messages>>
aggVars == <<idx, repo_path, branch, commits, all_commits, repo_stats, errors_logged>>
filterVars == <<commits_in, author_filters, filtered_commits, matches_dict>>
runVars == <<parsed_authors, digest_commits, warning, summary_mode>>
groupVars == <<author_commits, grouped_from, called>>
recapVars == <<recap_idx, recap_all_commits, recap_repo_stats, recap_errors_logged>>

-----------------------------------------------------------------------------
(* Bounds of the model. *)

MaxRepos == 2
MaxCommits == 3
MaxFilters == 2

-----------------------------------------------------------------------------
(* Optional values and text. *)

None == [k |-> "none", d |-> 0]
IntArg(n) == [k |-> "int", d |-> n]
EmptyStr == [k |-> "empty", d |-> 0]
AbsDate(n) == [k |-> "abs", d |-> n]
DaysAgo(n) == [k |-> "ago", d |-> n]

\* Python truthiness of an optional string: None and "" are falsy.
Truthy(s) == s.k \notin {"none", "empty"}

\* The lower-case form of one character.
LowerChar(ch) ==
    CASE ch = "A" -> "a" [] ch = "B" -> "b" [] ch = "C" -> "c" [] ch = "D" -> "d"
      [] ch = "E" -> "e" [] ch = "F" -> "f" [] ch = "G" -> "g" [] ch = "H" -> "h"
      [] ch = "I" -> "i" [] ch = "J" -> "j" [] ch = "K" -> "k" [] ch = "L" -> "l"
      [] ch = "M" -> "m" [] ch = "N" -> "n" [] ch = "O" -> "o" [] ch = "P" -> "p"
      [] ch = "Q" -> "q" [] ch = "R" -> "r" [] ch = "S" -> "s" [] ch = "T" -> "t"
      [] ch = "U" -> "u" [] ch = "V" -> "v" [] ch = "W" -> "w" [] ch = "X" -> "x"
      [] ch = "Y" -> "y" [] ch = "Z" -> "z"
      [] OTHER -> ch

\* str.lower()
Lower(s) == [i \in 1..Len(s) |-> LowerChar(s[i])]

\* needle in hay (Python's substring test; the empty string is in every string)
IsSubstring(needle, hay) ==
    \E i \in 0..(Len(hay) - Len(needle)) : SubSeq(hay, i + 1, i + Len(needle)) = needle

\* The whitespace characters of the texts of the model.
IsSpace(ch) == ch \in {" ", "\t", "\n"}

RECURSIVE LStrip(_)
LStrip(s) == IF s # <<>> /\ IsSpace(Head(s)) THEN LStrip(Tail(s)) ELSE s

RECURSIVE RStrip(_)
RStrip(s) == IF s # <<>> /\ IsSpace(s[Len(s)]) THEN RStrip(SubSeq(s, 1, Len(s) - 1)) ELSE s

\* str.strip()
Strip(s) == RStrip(LStrip(s))

\* str.split(","): cur is the piece being read, out the pieces read.
RECURSIVE SplitLoop(_, _, _)
SplitLoop(s, cur, out) ==
    IF s = <<>> THEN Append(out, cur)
    ELSE IF Head(s) = "," THEN SplitLoop(Tail(s), <<>>, Append(out, cur))
    ELSE SplitLoop(Tail(s), Append(cur, Head(s)), out)

Split(s) == SplitLoop(s, <<>>, <<>>)

\* Variant: every piece is kept.
split_authors_keeps_empty(author_arg) ==
    [i \in 1..Len(Split(author_arg)) |-> Strip(Split(author_arg)[i])]

\* [a.strip() for a in author_arg.split(",") if a.strip()]
split_authors(author_arg) ==
    LET nonblank(a) == Strip(a) # <<>>
        kept == SelectSeq(Split(author_arg), nonblank)
    IN  [i \in 1..Len(kept) |-> Strip(kept[i])]

RECURSIVE ParseLoop(_, _)
ParseLoop(args, parsed_so_far) ==
    IF args = <<>> THEN parsed_so_far
    ELSE ParseLoop(Tail(args), parsed_so_far \o split_authors(Head(args)))

parse_author_filters(author_args) == ParseLoop(author_args, <<>>)

-----------------------------------------------------------------------------
(* The file system and the repositories the program reads.                  *)

Now == 10

Paths == {"/w/A", "/w/B", "/w/C", "/w/plain", "/w/missing"}

\* Path(repo_path).exists()
PathExists(p) == p # "/w/missing"

\* (Path(repo_path) / ".git").exists()
HasGitDir(p) == p \in {"/w/A", "/w/B", "/w/C"}

\* Path(repo_path).name
PathName(p) ==
    CASE p = "/w/A" -> "A"
      [] p = "/w/B" -> "B"
      [] p = "/w/C" -> "C"
      [] p = "/w/plain" -> "plain"
      [] OTHER -> "missing"

\* Repositories whose log traversal raises (a corrupted object store).
Corrupt == {"/w/C"}

sAl == <<"A", "l">>
sBo == <<"B", "o">>
eAl == <<"a", "@", "x">>
eBo == <<"b", "@", "x">>

Raw(h, n, e, t, m, hasParents, diffs, tree) ==
    [hexsha |-> h, name |-> n, email |-> e, committed_date |-> t, message |-> m,
     parents |-> hasParents, diffs |-> diffs, tree |-> tree]

\* A diff entry is <<a_path, b_path>>; "" stands for None.
History(p) ==
    CASE p = "/w/A" ->
           << Raw("a4", sAl, eAl, 3, <<"f", " ">>, TRUE, << <<"x", "x">> >>, <<>>),
              Raw("a3", sBo, eBo, 2, <<"g">>, TRUE, << <<"x", "y">> >>, <<>>),
              Raw("a2", sAl, eAl, 2, <<" ", "h">>, TRUE, << <<"", "z">> >>, <<>>),
              Raw("a1", sAl, eAl, 1, <<"i">>, FALSE, <<>>, <<"x">>) >>
      [] p = "/w/B" ->
           << Raw("b2", sBo, eBo, 4, <<"j">>, TRUE, << <<"u", "">> >>, <<>>),
              Raw("b1", <<>>, <<>>, 2, <<"k">>, FALSE, <<>>, <<"u", "v">>) >>
      [] p = "/w/C" ->
           << Raw("c2", sAl, eAl, 5, <<"l">>, TRUE, << <<"w", "w">> >>, <<>>),
              Raw("c1", sBo, eBo, 1, <<"m">>, FALSE, <<>>, <<"w">>) >>
      [] OTHER -> <<>>

\* git's reading of a date expression: "<d> days ago" counts back from now.
GitDate(e) == IF e.k = "ago" THEN Now - e.d ELSE e.d

RECURSIVE Take(_, _)
Take(s, n) == IF n = 0 \/ s = <<>> THEN <<>> ELSE <<Head(s)>> \o Take(Tail(s), n - 1)

\* Repo.iter_commits(**kwargs): the history, newest first, cut by --since,
\* --until and --max-count.  git reads a negative --max-count as no limit.
iter_commits(p, kwSince, kwUntil, kwMaxCount) ==
    LET inRange(r) == /\ (kwSince.k # "none" => r.committed_date >= GitDate(kwSince))
                      /\ (kwUntil.k # "none" => r.committed_date <= GitDate(kwUntil))
        sel == SelectSeq(History(p), inRange)
    IN  IF kwMaxCount.k = "int" /\ kwMaxCount.d >= 0 THEN Take(sel, kwMaxCount.d) ELSE sel

\* The files_changed loop of get_commits.
RECURSIVE DiffPaths(_)
DiffPaths(ds) ==
    IF ds = <<>> THEN <<>>
    ELSE LET a == Head(ds)[1]
             b == Head(ds)[2]
         IN  (IF a # "" THEN <<a>> ELSE <<>>)
             \o (IF b # "" /\ b # a THEN <<b>> ELSE <<>>)
             \o DiffPaths(Tail(ds))

FilesChanged(r) == IF r.parents THEN DiffPaths(r.diffs) ELSE r.tree

sUnknown == <<"U", "n", "k", "n", "o", "w", "n">>
sUnknownEmail == <<"u", "n", "k", "n", "o", "w", "n", "@", "e", "x", "a", "m", "p", "l", "e", ".", "c", "o", "m">>

GitCommit(r, repoName) ==
    [hash |-> r.hexsha,
     author |-> IF r.name # <<>> THEN r.name ELSE sUnknown,
     email |-> IF r.email # <<>> THEN r.email ELSE sUnknownEmail,
     date |-> r.committed_date,
     message |-> Strip(r.message),
     files_changed |-> FilesChanged(r),
     repo_name |-> repoName]

\* The commit loop shared by get_commits and get_recent_commits_by_count.  A
\* corrupted repository raises after failAt commits were read; the list built so
\* far is local to the call and is lost with it.
ReadCommits(p, raws, failAt) ==
    LET made == [i \in 1..Len(raws) |-> GitCommit(raws[i], PathName(p))]
    IN  IF p \in Corrupt
        THEN [ok |-> FALSE, commits |-> Take(made, failAt)]
        ELSE [ok |-> TRUE, commits |-> made]

get_commits(p, s, u, failAt) ==
    ReadCommits(p,
                iter_commits(p, IF Truthy(s) THEN s ELSE None,
                                IF Truthy(u) THEN u ELSE None, None),
                failAt)

get_recent_commits(p, n, failAt) == get_commits(p, DaysAgo(n), None, failAt)

get_recent_commits_by_count(p, n, failAt) ==
    ReadCommits(p, iter_commits(p, None, None, IntArg(n)), failAt)

DefaultDays == 7

\* Variant: days is tested before count.
process_single_repository_days_first(p, s, u, d, c, failAt) ==
    IF d.k # "none" THEN get_recent_commits(p, d.d, failAt)
    ELSE IF c.k # "none" THEN get_recent_commits_by_count(p, c.d, failAt)
    ELSE IF Truthy(s) \/ Truthy(u) THEN get_commits(p, s, u, failAt)
    ELSE get_recent_commits(p, DefaultDays, failAt)

process_single_repository(p, s, u, d, c, failAt) ==
    IF c.k # "none" THEN get_recent_commits_by_count(p, c.d, failAt)
    ELSE IF d.k # "none" THEN get_recent_commits(p, d.d, failAt)
    ELSE IF Truthy(s) \/ Truthy(u) THEN get_commits(p, s, u, failAt)
    ELSE get_recent_commits(p, DefaultDays, failAt)

-----------------------------------------------------------------------------
(* The retrieval of git_recap: class GitCommitRetriever. *)

\* git_recap's GitCommit has no repo_name.
RecapGitCommit(r) ==
    [hash |-> r.hexsha,
     author |-> IF r.name # <<>> THEN r.name ELSE sUnknown,
     email |-> IF r.email # <<>> THEN r.email ELSE sUnknownEmail,
     date |-> r.committed_date,
     message |-> Strip(r.message),
     files_changed |-> FilesChanged(r)]

\* The commit loop of GitCommitRetriever.get_commits.
RecapReadCommits(p, raws, failAt) ==
    LET made == [i \in 1..Len(raws) |-> RecapGitCommit(raws[i])]
    IN  IF p \in Corrupt
        THEN [ok |-> FALSE, commits |-> Take(made, failAt)]
        ELSE [ok |-> TRUE, commits |-> made]

GitCommitRetriever_get_commits(p, s, u, failAt) ==
    RecapReadCommits(p,
                     iter_commits(p, IF Truthy(s) THEN s ELSE None,
                                     IF Truthy(u) THEN u ELSE None, None),
                     failAt)

GitCommitRetriever_get_recent_commits(p, n, failAt) ==
    GitCommitRetriever_get_commits(p, DaysAgo(n), None, failAt)

\* retriever.get_recent_commits_by_count: GitCommitRetriever has no such
\* attribute, so the lookup raises AttributeError.
GitCommitRetriever_get_recent_commits_by_count(p, n, failAt) ==
    [ok |-> FALSE, commits |-> <<>>]

RecapDefaultDays == 7

\* process_single_repository of git_recap/cli.py.
recap_process_single_repository(p, s, u, d, c, failAt) ==
    IF c.k # "none" THEN GitCommitRetriever_get_recent_commits_by_count(p, c.d, failAt)
    ELSE IF d.k # "none" THEN GitCommitRetriever_get_recent_commits(p, d.d, failAt)
    ELSE IF Truthy(s) \/ Truthy(u) THEN GitCommitRetriever_get_commits(p, s, u, failAt)
    ELSE GitCommitRetriever_get_recent_commits(p, RecapDefaultDays, failAt)

-----------------------------------------------------------------------------
(* Repository validation. *)

ErrNotExist(p) == <<"Repository path '", p, "' does not exist">>
ErrNotRepo(p) == <<"'", p, "' is not a git repository">>

\* The loop of validate_repositories over paths, from the lists built so far.
RECURSIVE ValidateLoop(_, _, _)
ValidateLoop(paths, valid, errors) ==
    IF paths = <<>> THEN <<valid, errors>>
    ELSE LET p == Head(paths)
         IN  IF ~PathExists(p)
             THEN ValidateLoop(Tail(paths), valid, Append(errors, ErrNotExist(p)))
             ELSE IF ~HasGitDir(p)
             THEN ValidateLoop(Tail(paths), valid, Append(errors, ErrNotRepo(p)))
             ELSE ValidateLoop(Tail(paths), Append(valid, p), errors)

\* Variant: the loop returns at the first invalid path.
RECURSIVE ValidateLoopStops(_, _, _)
ValidateLoopStops(paths, valid, errors) ==
    IF paths = <<>> THEN <<valid, errors>>
    ELSE LET p == Head(paths)
         IN  IF ~PathExists(p) THEN <<valid, Append(errors, ErrNotExist(p))>>
             ELSE IF ~HasGitDir(p) THEN <<valid, Append(errors, ErrNotRepo(p))>>
             ELSE ValidateLoopStops(Tail(paths), Append(valid, p), errors)

validate_repositories_stops(paths) == ValidateLoopStops(paths, <<>>, <<>>)

validate_repositories(paths) == ValidateLoop(paths, <<>>, <<>>)

-----------------------------------------------------------------------------
(* Aggregation. *)

\* Variant: c goes in front of the elements of its own date (an ascending sort
\* that is then reversed).
InsertBeforeEqual(sorted, c) ==
    LET k == Cardinality({i \in 1..Len(sorted) : sorted[i].date > c.date})
    IN  SubSeq(sorted, 1, k) \o <<c>> \o SubSeq(sorted, k + 1, Len(sorted))

\* One insertion of a stable descending sort: c goes behind every element that
\* is not older than it.
InsertNewestFirst(sorted, c) ==
    LET k == Cardinality({i \in 1..Len(sorted) : sorted[i].date >= c.date})
    IN  SubSeq(sorted, 1, k) \o <<c>> \o SubSeq(sorted, k + 1, Len(sorted))

\* Variant: the list is returned as concatenated.
SortOmitted(s) == s

\* list.sort(key=lambda c: c.date, reverse=True): stable, newest first.
RECURSIVE SortNewestFirst(_)
SortNewestFirst(s) ==
    IF s = <<>> THEN <<>>
    ELSE InsertNewestFirst(SortNewestFirst(SubSeq(s, 1, Len(s) - 1)), s[Len(s)])

RepoStat(p, cs) == <<PathName(p), Len(cs)>>

-----------------------------------------------------------------------------
(* The inputs of a run. *)

SeqsUpTo(S, n) == UNION {[1..m -> S] : m \in 0..n}

CountArgs == {None, IntArg(-1), IntArg(0), IntArg(2)}
DaysArgs == {None, IntArg(0), IntArg(10)}
SinceArgs == {None, EmptyStr, AbsDate(2), DaysAgo(6)}
UntilArgs == {None, AbsDate(3)}

IdleValidate == valid_paths = <<>> /\ error_messages = <<>>

IdleAggregate ==
    /\ idx = 0
    /\ repo_path = ""
    /\ branch = "none"
    /\ commits = <<>>
    /\ all_commits = <<>>
    /\ repo_stats = <<>>
    /\ errors_logged = <<>>

IdleFilter ==
    /\ commits_in = <<>>
    /\ author_filters = <<>>
    /\ filtered_commits = <<>>
    /\ matches_dict = <<>>

IdleRun ==
    /\ parsed_authors = <<>>
    /\ digest_commits = <<>>
    /\ warning = "none"
    /\ summary_mode = "none"

IdleGroup ==
    /\ author_commits = <<>>
    /\ grouped_from = "none"
    /\ called = {}

IdleRecap ==
    /\ recap_idx = 0
    /\ recap_all_commits = <<>>
    /\ recap_repo_stats = <<>>
    /\ recap_errors_logged = <<>>

Init ==
    /\ repo_paths \in SeqsUpTo(Paths, MaxRepos)
    /\ since \in SinceArgs
    /\ until \in UntilArgs
    /\ days \in DaysArgs
    /\ count \in CountArgs
    /\ authors = <<>>
    /\ by_author = FALSE
    /\ pc = "start"
    /\ IdleValidate
    /\ IdleAggregate
    /\ IdleFilter
    /\ IdleRun
    /\ IdleGroup
    /\ IdleRecap

-----------------------------------------------------------------------------
(* The digest command up to the aggregated commit list. *)

DigestNoRepos ==
    /\ pc = "start"
    /\ repo_paths = <<>>
    /\ pc' = "exit1"
    /\ UNCHANGED <<digestVars, recapVars, runVars, groupVars, validateVars, aggVars, filterVars>>

DigestValidate ==
    /\ pc = "start"
    /\ repo_paths # <<>>
    /\ parsed_authors' = parse_author_filters(authors)
    /\ LET r == validate_repositories(repo_paths)
       IN  /\ valid_paths' = r[1]
           /\ error_messages' = r[2]
    /\ pc' = "validated"
    /\ UNCHANGED <<digestVars, recapVars, digest_commits, warning, summary_mode, groupVars, aggVars,
                   filterVars>>

DigestNoValid ==
    /\ pc = "validated"
    /\ valid_paths = <<>>
    /\ pc' = "exit1"
    /\ UNCHANGED <<digestVars, recapVars, runVars, groupVars, validateVars, aggVars, filterVars>>

\* digest calls aggregate_commits_from_repos(valid_repos, ...), which starts
\* with empty all_commits and repo_stats.
AggregateEnter ==
    /\ pc = "validated"
    /\ valid_paths # <<>>
    /\ pc' = "agg_loop"
    /\ idx' = 1
    /\ all_commits' = <<>>
    /\ repo_stats' = <<>>
    /\ UNCHANGED <<digestVars, recapVars, runVars, groupVars, validateVars, repo_path, branch, commits,
                   errors_logged, filterVars>>

\* Variant: all_commits is assigned the repository's list instead of extended.
AggregateIterOkAssigns ==
    /\ pc = "agg_loop"
    /\ idx <= Len(valid_paths)
    /\ \E failAt \in 0..Len(History(valid_paths[idx])) :
         LET r == process_single_repository(valid_paths[idx], since, until, days,
                                            count, failAt)
         IN  /\ r.ok
             /\ commits' = r.commits
             /\ all_commits' = r.commits
             /\ repo_stats' = Append(repo_stats, RepoStat(valid_paths[idx], r.commits))
    /\ repo_path' = valid_paths[idx]
    /\ branch' = "ok"
    /\ idx' = idx + 1
    /\ UNCHANGED <<digestVars, recapVars, runVars, groupVars, validateVars, pc, errors_logged, filterVars>>

\* One iteration whose retrieval returns: the try block.
AggregateIterOk ==
    /\ pc = "agg_loop"
    /\ idx <= Len(valid_paths)
    /\ \E failAt \in 0..Len(History(valid_paths[idx])) :
         LET r == process_single_repository(valid_paths[idx], since, until, days,
                                            count, failAt)
         IN  /\ r.ok
             /\ commits' = r.commits
             /\ all_commits' = all_commits \o r.commits
             /\ repo_stats' = Append(repo_stats, RepoStat(valid_paths[idx], r.commits))
    /\ repo_path' = valid_paths[idx]
    /\ branch' = "ok"
    /\ idx' = idx + 1
    /\ UNCHANGED <<digestVars, recapVars, runVars, groupVars, validateVars, pc, errors_logged, filterVars>>

\* Variant: the commits read before the failure are kept.
AggregateIterExceptKeepsPartial ==
    /\ pc = "agg_loop"
    /\ idx <= Len(valid_paths)
    /\ \E failAt \in 0..Len(History(valid_paths[idx])) :
         LET r == process_single_repository(valid_paths[idx], since, until, days,
                                            count, failAt)
         IN  /\ ~r.ok
             /\ all_commits' = all_commits \o r.commits
    /\ errors_logged' = Append(errors_logged, valid_paths[idx])
    /\ repo_path' = valid_paths[idx]
    /\ branch' = "raised"
    /\ idx' = idx + 1
    /\ UNCHANGED <<digestVars, recapVars, runVars, groupVars, validateVars, pc, commits, repo_stats, filterVars>>

\* One iteration whose retrieval raises: the except block logs and continues.
AggregateIterExcept ==
    /\ pc = "agg_loop"
    /\ idx <= Len(valid_paths)
    /\ \E failAt \in 0..Len(History(valid_paths[idx])) :
         LET r == process_single_repository(valid_paths[idx], since, until, days,
                                            count, failAt)
         IN  ~r.ok
    /\ errors_logged' = Append(errors_logged, valid_paths[idx])
    /\ repo_path' = valid_paths[idx]
    /\ branch' = "raised"
    /\ idx' = idx + 1
    /\ UNCHANGED <<digestVars, recapVars, runVars, groupVars, validateVars, pc, commits, all_commits, repo_stats,
                   filterVars>>

\* Variant: the loop is left before the last repository.
AggregateSortReturnEarly ==
    /\ pc = "agg_loop"
    /\ idx >= Len(valid_paths)
    /\ all_commits' = SortNewestFirst(all_commits)
    /\ pc' = "aggregated"
    /\ UNCHANGED <<digestVars, recapVars, runVars, groupVars, validateVars, idx, repo_path, branch, commits,
                   repo_stats, errors_logged, filterVars>>

\* After the loop: the in-place sort and the return.
AggregateSortReturn ==
    /\ pc = "agg_loop"
    /\ idx > Len(valid_paths)
    /\ all_commits' = SortNewestFirst(all_commits)
    /\ pc' = "aggregated"
    /\ UNCHANGED <<digestVars, recapVars, runVars, groupVars, validateVars, idx, repo_path, branch, commits,
                   repo_stats, errors_logged, filterVars>>

Next ==
    \/ DigestNoRepos
    \/ DigestValidate
    \/ DigestNoValid
    \/ AggregateEnter
    \/ AggregateIterOk
    \/ AggregateIterExcept
    \/ AggregateSortReturn

Spec == Init /\ [][Next]_vars

-----------------------------------------------------------------------------
(* aggregate_commits_from_repos of git_recap, called with the valid paths and
   the arguments of the run after git_digest's aggregation has returned. *)

RecapAggregateEnter ==
    /\ pc = "aggregated"
    /\ pc' = "recap_loop"
    /\ recap_idx' = 1
    /\ recap_all_commits' = <<>>
    /\ recap_repo_stats' = <<>>
    /\ recap_errors_logged' = <<>>
    /\ UNCHANGED <<digestVars, runVars, groupVars, validateVars, aggVars, filterVars>>

\* One iteration whose retrieval returns: the try block.
RecapAggregateIterOk ==
    /\ pc = "recap_loop"
    /\ recap_idx <= Len(valid_paths)
    /\ \E failAt \in 0..Len(History(valid_paths[recap_idx])) :
         LET r == recap_process_single_repository(valid_paths[recap_idx], since, until, days,
                                                  count, failAt)
         IN  /\ r.ok
             /\ recap_all_commits' = recap_all_commits \o r.commits
             /\ recap_repo_stats' =
                    Append(recap_repo_stats, RepoStat(valid_paths[recap_idx], r.commits))
    /\ recap_idx' = recap_idx + 1
    /\ UNCHANGED <<digestVars, runVars, groupVars, validateVars, aggVars, filterVars, pc,
                   recap_errors_logged>>

\* One iteration whose retrieval raises: the except block logs and continues.
RecapAggregateIterExcept ==
    /\ pc = "recap_loop"
    /\ recap_idx <= Len(valid_paths)
    /\ \E failAt \in 0..Len(History(valid_paths[recap_idx])) :
         LET r == recap_process_single_repository(valid_paths[recap_idx], since, until, days,
                                                  count, failAt)
         IN  ~r.ok
    /\ recap_errors_logged' = Append(recap_errors_logged, valid_paths[recap_idx])
    /\ recap_idx' = recap_idx + 1
    /\ UNCHANGED <<digestVars, runVars, groupVars, validateVars, aggVars, filterVars, pc,
                   recap_all_commits, recap_repo_stats>>

\* After the loop: the in-place sort and the return.
RecapAggregateSortReturn ==
    /\ pc = "recap_loop"
    /\ recap_idx > Len(valid_paths)
    /\ recap_all_commits' = SortNewestFirst(recap_all_commits)
    /\ pc' = "recap_aggregated"
    /\ UNCHANGED <<digestVars, runVars, groupVars, validateVars, aggVars, filterVars,
                   recap_idx, recap_repo_stats, recap_errors_logged>>

NextRecap ==
    \/ DigestNoRepos
    \/ DigestValidate
    \/ DigestNoValid
    \/ AggregateEnter
    \/ AggregateIterOk
    \/ AggregateIterExcept
    \/ AggregateSortReturn
    \/ RecapAggregateEnter
    \/ RecapAggregateIterOk
    \/ RecapAggregateIterExcept
    \/ RecapAggregateSortReturn

SpecRecap == Init /\ [][NextRecap]_vars

-----------------------------------------------------------------------------
(* Author filtering. *)

\* f"{commit.author} <{commit.email}>"
AuthorKey(c) == c.author \o <<" ", "<">> \o c.email \o <<">">>

\* Variant: the key is searched as written.
AuthorInfoCaseSensitive(c) == AuthorKey(c)

\* author_info: the lower-cased key a filter is searched in.
AuthorInfo(c) == Lower(AuthorKey(c))

\* Variant: no break, so every matching filter appends the commit.
RECURSIVE InnerLoopNoBreak(_, _, _, _)
InnerLoopNoBreak(c, filters, i, acc) ==
    IF i > Len(filters) THEN acc
    ELSE IF IsSubstring(Lower(filters[i]), AuthorInfo(c))
    THEN InnerLoopNoBreak(c, filters, i + 1,
             [filtered |-> Append(acc.filtered, c),
              mpf |-> [acc.mpf EXCEPT ![filters[i]] = @ \cup {AuthorKey(c)}]])
    ELSE InnerLoopNoBreak(c, filters, i + 1, acc)

\* Variant: the commit is appended once and its key is recorded under every
\* matching filter.
InnerLoopRecordsAll(c, filters, i, acc) ==
    LET hits == {j \in i..Len(filters) : IsSubstring(Lower(filters[j]), AuthorInfo(c))}
    IN  IF hits = {} THEN acc
        ELSE [filtered |-> Append(acc.filtered, c),
              mpf |-> [f \in DOMAIN acc.mpf |->
                         IF \E j \in hits : filters[j] = f
                         THEN acc.mpf[f] \cup {AuthorKey(c)} ELSE acc.mpf[f]]]

\* The inner loop over zip(author_filters, filters_lower) from position i, on
\* acc = [filtered, mpf] (filtered_commits and matches_per_filter so far): the
\* first filter found in author_info keeps the commit, records its key under
\* the original filter, and breaks.
RECURSIVE InnerLoop(_, _, _, _)
InnerLoop(c, filters, i, acc) ==
    IF i > Len(filters) THEN acc
    ELSE IF IsSubstring(Lower(filters[i]), AuthorInfo(c))
    THEN [filtered |-> Append(acc.filtered, c),
          mpf |-> [acc.mpf EXCEPT ![filters[i]] = @ \cup {AuthorKey(c)}]]
    ELSE InnerLoop(c, filters, i + 1, acc)

\* The outer loop over commits.
RECURSIVE FilterLoop(_, _, _)
FilterLoop(cs, filters, acc) ==
    IF cs = <<>> THEN acc
    ELSE FilterLoop(Tail(cs), filters, InnerLoop(Head(cs), filters, 1, acc))

Range(s) == {s[i] : i \in 1..Len(s)}

\* filter_commits_by_authors before the sets are listed: [filtered, mpf].
FilterCommits(cs, filters) ==
    IF filters = <<>> THEN [filtered |-> cs, mpf |-> <<>>]
    ELSE FilterLoop(cs, filters, [filtered |-> <<>>, mpf |-> [f \in Range(filters) |-> {}]])

\* list(matches): the elements of a set in an order Python does not fix.
Listings(S) == {l \in [1..Cardinality(S) -> S] : Range(l) = S}

\* {f: list(matches) for f, matches in matches_per_filter.items()}
RECURSIVE DictsOver(_, _)
DictsOver(keys, mpf) ==
    IF keys = {} THEN {<<>>}
    ELSE LET f == CHOOSE x \in keys : TRUE
         IN  {(f :> l) @@ rest : l \in Listings(mpf[f]), rest \in DictsOver(keys \ {f}, mpf)}

\* Variant: a filter that matched nothing gets no entry.
MatchesDictsDropsEmpty(mpf) == DictsOver({f \in DOMAIN mpf : mpf[f] # {}}, mpf)

MatchesDicts(mpf) == DictsOver(DOMAIN mpf, mpf)

CommitPool ==
    {GitCommit(History("/w/A")[i], "A") : i \in 1..3} \cup {GitCommit(History("/w/B")[2], "B")}

FilterPool ==
    { <<"a", "l">>, <<"A", "L">>, <<"@", "x">>, <<"z", "z">>, <<"l", " ", "<", "a">> }

IdleDigest ==
    /\ repo_paths = <<>>
    /\ since = None
    /\ until = None
    /\ days = None
    /\ count = None
    /\ authors = <<>>
    /\ by_author = FALSE

InitFilter ==
    /\ IdleDigest
    /\ IdleValidate
    /\ IdleAggregate
    /\ IdleRun
    /\ IdleGroup
    /\ IdleRecap
    /\ pc = "filter_call"
    /\ commits_in \in SeqsUpTo(CommitPool, MaxCommits)
    /\ author_filters \in SeqsUpTo(FilterPool, MaxFilters)
    /\ filtered_commits = <<>>
    /\ matches_dict = <<>>

\* A call of filter_commits_by_authors(commits_in, author_filters).
FilterCall ==
    /\ pc = "filter_call"
    /\ LET r == FilterCommits(commits_in, author_filters)
       IN  /\ filtered_commits' = r.filtered
           /\ matches_dict' \in MatchesDicts(r.mpf)
    /\ pc' = "filtered"
    /\ UNCHANGED <<digestVars, recapVars, runVars, groupVars, validateVars, aggVars, commits_in, author_filters>>

NextFilter == FilterCall

SpecFilter == InitFilter /\ [][NextFilter]_vars

-----------------------------------------------------------------------------
(* Author grouping. *)

\* Variant: the key is the lower-cased string.
GroupKeyLower(c) == Lower(c.author \o <<" ", "<">> \o c.email \o <<">">>)

\* author_key = f"{commit.author} <{commit.email}>"
GroupKey(c) == c.author \o <<" ", "<">> \o c.email \o <<">">>

\* Variant: the commit replaces the list of its key.
AddToGroupOverwrites(acc, c) ==
    IF \E i \in 1..Len(acc) : acc[i].key = GroupKey(c)
    THEN [i \in 1..Len(acc) |->
            IF acc[i].key = GroupKey(c) THEN [key |-> acc[i].key, commits |-> <<c>>]
            ELSE acc[i]]
    ELSE Append(acc, [key |-> GroupKey(c), commits |-> <<c>>])

\* Variant: the commit is put in front of the list of its key.
AddToGroupPrepends(acc, c) ==
    IF \E i \in 1..Len(acc) : acc[i].key = GroupKey(c)
    THEN [i \in 1..Len(acc) |->
            IF acc[i].key = GroupKey(c)
            THEN [key |-> acc[i].key, commits |-> <<c>> \o acc[i].commits]
            ELSE acc[i]]
    ELSE Append(acc, [key |-> GroupKey(c), commits |-> <<c>>])

\* author_commits[author_key].append(commit) on a defaultdict(list): acc is the
\* dict as the list of its items, in insertion order.
AddToGroup(acc, c) ==
    IF \E i \in 1..Len(acc) : acc[i].key = GroupKey(c)
    THEN [i \in 1..Len(acc) |->
            IF acc[i].key = GroupKey(c)
            THEN [key |-> acc[i].key, commits |-> Append(acc[i].commits, c)]
            ELSE acc[i]]
    ELSE Append(acc, [key |-> GroupKey(c), commits |-> <<c>>])

RECURSIVE GroupLoop(_, _)
GroupLoop(cs, acc) ==
    IF cs = <<>> THEN acc ELSE GroupLoop(Tail(cs), AddToGroup(acc, Head(cs)))

group_commits_by_author(cs) == GroupLoop(cs, <<>>)

-----------------------------------------------------------------------------
(* The digest command from the aggregated commit list to its end. *)

\* Variant: an empty aggregate is blamed on the author filters when given.
DigestEmptyAggregateBlamesFilters ==
    /\ pc = "aggregated"
    /\ all_commits = <<>>
    /\ digest_commits' = all_commits
    /\ warning' = IF parsed_authors # <<>> THEN "author_filters"
                  ELSE IF count.k # "none" THEN "any_repository" ELSE "date_range"
    /\ pc' = "returned"
    /\ UNCHANGED <<digestVars, recapVars, parsed_authors, summary_mode, groupVars, validateVars, aggVars,
                   filterVars>>

\* if not commits: after the aggregation; the warning and the return.
DigestEmptyAggregate ==
    /\ pc = "aggregated"
    /\ all_commits = <<>>
    /\ digest_commits' = all_commits
    /\ warning' = IF count.k # "none" THEN "any_repository" ELSE "date_range"
    /\ pc' = "returned"
    /\ UNCHANGED <<digestVars, recapVars, parsed_authors, summary_mode, groupVars, validateVars, aggVars,
                   filterVars>>

\* if parsed_authors: commits = apply_author_filtering(commits, parsed_authors, ...)
DigestApplyFilter ==
    /\ pc = "aggregated"
    /\ all_commits # <<>>
    /\ parsed_authors # <<>>
    /\ commits_in' = all_commits
    /\ author_filters' = parsed_authors
    /\ LET r == FilterCommits(all_commits, parsed_authors)
       IN  /\ filtered_commits' = r.filtered
           /\ digest_commits' = r.filtered
           /\ matches_dict' \in MatchesDicts(r.mpf)
    /\ called' = called \cup {"filter"}
    /\ pc' = "narrowed"
    /\ UNCHANGED <<digestVars, recapVars, parsed_authors, warning, summary_mode, author_commits,
                   grouped_from, validateVars, aggVars>>

\* No author filter: the aggregated list goes on as it is.
DigestSkipFilter ==
    /\ pc = "aggregated"
    /\ all_commits # <<>>
    /\ parsed_authors = <<>>
    /\ digest_commits' = all_commits
    /\ pc' = "narrowed"
    /\ UNCHANGED <<digestVars, recapVars, parsed_authors, warning, summary_mode, groupVars, validateVars,
                   aggVars, filterVars>>

\* if not commits: after the filtering; the warning and the return.
DigestEmptyFiltered ==
    /\ pc = "narrowed"
    /\ digest_commits = <<>>
    /\ warning' = IF parsed_authors # <<>> THEN "author_filters"
                  ELSE IF count.k # "none" THEN "any_repository" ELSE "date_range"
    /\ pc' = "returned"
    /\ UNCHANGED <<digestVars, recapVars, parsed_authors, digest_commits, summary_mode, groupVars,
                   validateVars, aggVars, filterVars>>

\* generate_and_display_summary with by_author: the commits are grouped and
\* the summaries of the groups are printed.
DigestSummaryByAuthor ==
    /\ pc = "narrowed"
    /\ digest_commits # <<>>
    /\ by_author
    /\ author_commits' = group_commits_by_author(digest_commits)
    /\ grouped_from' = "digest"
    /\ called' = called \cup {"group"}
    /\ summary_mode' = "by_author"
    /\ pc' = "done"
    /\ UNCHANGED <<digestVars, recapVars, parsed_authors, digest_commits, warning, validateVars, aggVars,
                   filterVars>>

\* generate_and_display_summary without by_author: the commits are formatted
\* and one summary is printed.
DigestSummaryChronological ==
    /\ pc = "narrowed"
    /\ digest_commits # <<>>
    /\ ~by_author
    /\ summary_mode' = "chronological"
    /\ pc' = "done"
    /\ UNCHANGED <<digestVars, recapVars, parsed_authors, digest_commits, warning, groupVars, validateVars,
                   aggVars, filterVars>>

\* The summarization raises (no API key, a failed request): except Exception
\* logs the error and raises typer.Exit(1).
DigestSummaryRaises ==
    /\ pc = "narrowed"
    /\ digest_commits # <<>>
    /\ summary_mode' = "raised"
    /\ pc' = "exit1"
    /\ UNCHANGED <<digestVars, recapVars, parsed_authors, digest_commits, warning, groupVars, validateVars,
                   aggVars, filterVars>>

DigestPathLists ==
    { <<>>, <<"/w/plain">>, <<"/w/A">>, <<"/w/C">>, <<"/w/B", "/w/A">>, <<"/w/C", "/w/A">> }

DigestCountArgs == {None, IntArg(0), IntArg(2)}

\* The values of --authors: not given; "al"; "zz"; " al ,<tab>Bo"; ", ,";
\* and given twice, "zz" and "a l,,@x ".
DigestAuthorArgs ==
    { <<>>,
      << <<"a", "l">> >>,
      << <<"z", "z">> >>,
      << <<" ", "a", "l", " ", ",", "\t", "B", "o">> >>,
      << <<",", " ", ",">> >>,
      << <<"z", "z">>, <<"a", " ", "l", ",", ",", "@", "x", " ">> >> }

InitDigest ==
    /\ repo_paths \in DigestPathLists
    /\ since = None
    /\ until = None
    /\ days \in DaysArgs
    /\ count \in DigestCountArgs
    /\ authors \in DigestAuthorArgs
    /\ by_author \in BOOLEAN
    /\ pc = "start"
    /\ IdleValidate
    /\ IdleAggregate
    /\ IdleFilter
    /\ IdleRun
    /\ IdleGroup
    /\ IdleRecap

NextDigest ==
    \/ DigestNoRepos
    \/ DigestValidate
    \/ DigestNoValid
    \/ AggregateEnter
    \/ AggregateIterOk
    \/ AggregateIterExcept
    \/ AggregateSortReturn
    \/ DigestEmptyAggregate
    \/ DigestApplyFilter
    \/ DigestSkipFilter
    \/ DigestEmptyFiltered
    \/ DigestSummaryByAuthor
    \/ DigestSummaryChronological
    \/ DigestSummaryRaises

SpecDigest == InitDigest /\ [][NextDigest]_vars

-----------------------------------------------------------------------------
(* The three stateless functions called in any order, any number of times. *)

MaxGroupCommits == 2

sLtB == <<"a", " ", "<", "b">>
sBLtC == <<"b", " ", "<", "c">>

\* Commits as a caller may build them: two of one author, one of another, one
\* of an author who shares an email, and two whose author and email hold " <".
GroupPool ==
    { GitCommit(History("/w/A")[1], "A"),
      GitCommit(History("/w/A")[2], "A"),
      GitCommit(History("/w/A")[3], "A"),
      GitCommit(Raw("g1", <<"A", "L">>, eAl, 2, <<"n">>, FALSE, <<>>, <<>>), "G"),
      GitCommit(Raw("g2", sLtB, <<"c">>, 2, <<"o">>, FALSE, <<>>, <<>>), "G"),
      GitCommit(Raw("g3", <<"a">>, sBLtC, 1, <<"p">>, FALSE, <<>>, <<>>), "G") }

LibPathLists == { <<>>, <<"/w/missing", "/w/A">>, <<"/w/A", "/w/plain", "/w/B">> }

LibFilterLists ==
    { <<>>, << <<"a", "l">> >>, << <<"@", "x">>, <<"a", "l">> >>, << <<"z", "z">> >>,
      << <<"A", "L">>, <<"z", "z">> >>, << <<"a", "l">>, <<"a", "l">> >>,
      << <<"<", "b">> >> }

InitLib ==
    /\ repo_paths \in LibPathLists
    /\ since = None
    /\ until = None
    /\ days = None
    /\ count = None
    /\ authors = <<>>
    /\ by_author = FALSE
    /\ pc = "lib"
    /\ IdleValidate
    /\ IdleAggregate
    /\ IdleRun
    /\ IdleGroup
    /\ IdleRecap
    /\ commits_in \in SeqsUpTo(GroupPool, MaxGroupCommits)
    /\ author_filters \in LibFilterLists
    /\ filtered_commits = <<>>
    /\ matches_dict = <<>>

LibValidate ==
    /\ pc = "lib"
    /\ valid_paths' = ValidateLoop(repo_paths, <<>>, <<>>)[1]
    /\ error_messages' = ValidateLoop(repo_paths, <<>>, <<>>)[2]
    /\ called' = called \cup {"validate"}
    /\ UNCHANGED <<digestVars, recapVars, runVars, pc, aggVars, filterVars, author_commits, grouped_from>>

\* Variant: the commits are filtered in place.
LibFilterInPlace ==
    /\ pc = "lib"
    /\ LET r == FilterCommits(commits_in, author_filters)
       IN  /\ filtered_commits' = r.filtered
           /\ commits_in' = r.filtered
           /\ matches_dict' \in MatchesDicts(r.mpf)
    /\ called' = called \cup {"filter"}
    /\ UNCHANGED <<digestVars, recapVars, runVars, pc, validateVars, aggVars, author_filters,
                   author_commits, grouped_from>>

LibFilter ==
    /\ pc = "lib"
    /\ LET r == FilterCommits(commits_in, author_filters)
       IN  /\ filtered_commits' = r.filtered
           /\ matches_dict' \in MatchesDicts(r.mpf)
    /\ called' = called \cup {"filter"}
    /\ UNCHANGED <<digestVars, recapVars, runVars, pc, validateVars, aggVars, commits_in, author_filters,
                   author_commits, grouped_from>>

\* group_commits_by_author on the commit list itself.
LibGroup ==
    /\ pc = "lib"
    /\ author_commits' = group_commits_by_author(commits_in)
    /\ grouped_from' = "input"
    /\ called' = called \cup {"group"}
    /\ UNCHANGED <<digestVars, recapVars, runVars, pc, validateVars, aggVars, filterVars>>

\* group_commits_by_author on the list the filter returned.
LibGroupFiltered ==
    /\ pc = "lib"
    /\ "filter" \in called
    /\ author_commits' = group_commits_by_author(filtered_commits)
    /\ grouped_from' = "filtered"
    /\ called' = called \cup {"group"}
    /\ UNCHANGED <<digestVars, recapVars, runVars, pc, validateVars, aggVars, filterVars>>

NextLib ==
    \/ LibValidate
    \/ LibFilter
    \/ LibGroup
    \/ LibGroupFiltered

SpecLib == InitLib /\ [][NextLib]_vars

-----------------------------------------------------------------------------
(* Properties of validation, selection and aggregation, checked under Spec. *)

IsValidRepo(p) == PathExists(p) /\ HasGitDir(p)
IsInvalidRepo(p) == ~IsValidRepo(p)

\* C1: validate_repositories splits its input exhaustively: the valid paths
\* are exactly the input paths that exist and hold .git, in input order, every
\* other input path yields exactly one error message (the k-th message names
\* the k-th invalid path), so the two lengths add up to the input's, and the
\* paths behind an invalid one are still checked.
C1_ValidatePartition ==
    pc # "start" =>
        /\ Len(valid_paths) + Len(error_messages) = Len(repo_paths)
        /\ valid_paths = SelectSeq(repo_paths, IsValidRepo)
        /\ Len(error_messages) = Len(SelectSeq(repo_paths, IsInvalidRepo))
        /\ \A k \in 1..Len(error_messages) :
             \E j \in 1..Len(error_messages[k]) :
                error_messages[k][j] = SelectSeq(repo_paths, IsInvalidRepo)[k]

\* An invalid path followed by a valid one: one message, and the valid path kept.
C1_Witness ==
    /\ pc = "validated"
    /\ Len(repo_paths) = 2
    /\ IsInvalidRepo(repo_paths[1])
    /\ IsValidRepo(repo_paths[2])
    /\ valid_paths = <<repo_paths[2]>>
    /\ Len(error_messages) = 1

Commits(p, raws) == [i \in 1..Len(raws) |-> GitCommit(raws[i], PathName(p))]

\* The commits of p recorded on day lo or later and, with hasHi, on day hi or earlier.
Window(p, hasLo, lo, hasHi, hi) ==
    LET in(r) == /\ (hasLo => r.committed_date >= lo)
                 /\ (hasHi => r.committed_date <= hi)
    IN  Commits(p, SelectSeq(History(p), in))

DayOf(e) == IF e.k = "ago" THEN Now - e.d ELSE e.d

\* What the days, since/until and default modes select from p.
DateModes(p) ==
    IF days.k # "none" THEN Window(p, TRUE, Now - days.d, FALSE, 0)
    ELSE IF Truthy(since) \/ Truthy(until)
    THEN Window(p, Truthy(since), DayOf(since), Truthy(until), DayOf(until))
    ELSE Window(p, TRUE, Now - 7, FALSE, 0)

IsPrefix(a, b) == Len(a) <= Len(b) /\ a = SubSeq(b, 1, Len(a))

\* What process_single_repository returns for p under the arguments of the run.
Selected(p) ==
    IF count.k # "none"
    THEN IF count.d >= 0 /\ count.d < Len(History(p))
         THEN Commits(p, SubSeq(History(p), 1, count.d))
         ELSE Commits(p, History(p))
    ELSE DateModes(p)

Succeeded(p) == p \notin Range(errors_logged)

\* The lists of the repositories that were retrieved, in the order of paths.
RECURSIVE Concatenated(_)
Concatenated(paths) ==
    IF paths = <<>> THEN <<>>
    ELSE (IF Succeeded(Head(paths)) THEN Selected(Head(paths)) ELSE <<>>)
         \o Concatenated(Tail(paths))

OnDay(s, d) == LET on(c) == c.date = d IN SelectSeq(s, on)

Days(s) == {s[i].date : i \in 1..Len(s)}

\* C3: the aggregated list is ordered newest first: no commit is followed by a
\* commit of a later date, whichever repositories they come from.
C3_SortedNewestFirst ==
    pc = "aggregated" =>
        \A i, j \in 1..Len(all_commits) : i < j => all_commits[i].date >= all_commits[j].date

\* Two repositories, and the newest commit comes from the second one.
C3_Witness ==
    /\ pc = "aggregated"
    /\ Len(repo_stats) = 2
    /\ Len(all_commits) >= 4
    /\ all_commits[1].repo_name = PathName(valid_paths[2])
    /\ valid_paths[1] # valid_paths[2]

\* C4: the sort is stable: the commits of one date stand in the output in the
\* order of the concatenated input, so the earlier repository's commit comes
\* first and a repository's own order is kept.
C4_StableSort ==
    pc = "aggregated" =>
        \A d \in Days(all_commits) \cup Days(Concatenated(valid_paths)) :
            OnDay(all_commits, d) = OnDay(Concatenated(valid_paths), d)

\* B listed before A: on day 2 B's commit stands before the two of A, which
\* keep their own order.
C4_Witness ==
    /\ pc = "aggregated"
    /\ valid_paths = <<"/w/B", "/w/A">>
    /\ \E i \in 1..Len(all_commits) :
         /\ i + 2 <= Len(all_commits)
         /\ all_commits[i].hash = "b1"
         /\ all_commits[i + 1].hash = "a3"
         /\ all_commits[i + 2].hash = "a2"

Hashes(p) == {History(p)[i].hexsha : i \in 1..Len(History(p))}

\* C5: a repository whose retrieval raises is skipped: the aggregator goes on
\* and returns, none of that repository's commits is in the output, and every
\* other repository, also one listed after it, is processed with its commits
\* in the output.
C5_FailureIsolation ==
    /\ branch = "raised" => pc \in {"agg_loop", "aggregated"}
    /\ pc = "aggregated" =>
        /\ Len(repo_stats) + Len(errors_logged) = Len(valid_paths)
        /\ \A i \in 1..Len(valid_paths) :
             IF Succeeded(valid_paths[i])
             THEN Range(Selected(valid_paths[i])) \subseteq Range(all_commits)
             ELSE \A k \in 1..Len(all_commits) : all_commits[k].hash \notin Hashes(valid_paths[i])

\* The corrupted repository listed first, A behind it, A's commits returned.
C5_Witness ==
    /\ pc = "aggregated"
    /\ valid_paths = <<"/w/C", "/w/A">>
    /\ errors_logged = <<"/w/C">>
    /\ Len(all_commits) = 4

BagOfSeq(s) == [x \in Range(s) |-> Cardinality({i \in 1..Len(s) : s[i] = x})]

\* C6: the output holds exactly the commits of the retrieved repositories,
\* each as often as it was retrieved; so it is empty exactly when every
\* repository failed or had no qualifying commit.
C6_PermutationOfRetrieved ==
    pc = "aggregated" =>
        /\ BagOfSeq(all_commits) = BagOfSeq(Concatenated(valid_paths))
        /\ all_commits = <<>> <=>
             \A i \in 1..Len(valid_paths) :
                ~Succeeded(valid_paths[i]) \/ Selected(valid_paths[i]) = <<>>

\* Two repositories that both contribute commits.
C6_Witness ==
    /\ pc = "aggregated"
    /\ Len(repo_stats) = 2
    /\ repo_stats[1][2] > 0
    /\ repo_stats[2][2] > 0
    /\ Len(all_commits) = repo_stats[1][2] + repo_stats[2][2]

\* C16: count mode is selected exactly when a positive count is given: a
\* positive count returns the count most recent commits, and with no count, a
\* count of 0 or a negative count the result is that of the next mode in the
\* precedence (days, explicit range, default).
C16_CountModeOnlyWhenPositive ==
    branch = "ok" =>
        IF count.k # "none" /\ count.d > 0
        THEN commits = Commits(repo_path, Take(History(repo_path), count.d))
        ELSE commits = DateModes(repo_path)

\* C17: the aggregator retrieves the repositories one at a time in the order
\* of the path list: each step of the loop retrieves the path at the loop
\* position, moves the position on by one, records that path once, as
\* retrieved or as failed, and only appends to the combined list; the sort and
\* the return happen when the position is past the last path.
C17_OneAtATimeInOrder ==
    [][ /\ (pc = "agg_loop" /\ pc' = "agg_loop") =>
              /\ idx <= Len(valid_paths)
              /\ idx' = idx + 1
              /\ repo_path' = valid_paths[idx]
              /\ Len(repo_stats') + Len(errors_logged') = idx
              /\ \/ repo_stats' = Append(repo_stats, <<PathName(valid_paths[idx]), Len(commits')>>)
                    /\ errors_logged' = errors_logged
                 \/ errors_logged' = Append(errors_logged, valid_paths[idx])
                    /\ repo_stats' = repo_stats
              /\ IsPrefix(all_commits, all_commits')
        /\ pc' = "aggregated" =>
              /\ pc = "agg_loop"
              /\ idx = Len(valid_paths) + 1
              /\ Len(repo_stats) + Len(errors_logged) = Len(valid_paths) ]_vars

\* Two different repositories, both retrieved, the combined list sorted.
C17_Witness ==
    /\ pc = "aggregated"
    /\ Len(valid_paths) = 2
    /\ valid_paths[1] # valid_paths[2]
    /\ idx = 3
    /\ repo_path = valid_paths[2]
    /\ Len(repo_stats) = 2
    /\ all_commits # Concatenated(valid_paths)

-----------------------------------------------------------------------------
(* Properties of the author filter, checked under SpecFilter. *)

\* Filter f, lower-cased, occurs in the lower-cased identity key of c.
FilterMatches(f, c) == IsSubstring(Lower(f), Lower(AuthorKey(c)))

MatchingFilters(c) == {i \in 1..Len(author_filters) : FilterMatches(author_filters[i], c)}

\* C7: with a non-empty filter list a commit is retained exactly when some
\* filter, lower-cased, is a substring of its lower-cased identity key
\* "{author} <{email}>"; matching is partial and ignores case on both sides.
C7_RetainedIffSomeFilterMatches ==
    pc = "filtered" /\ author_filters # <<>> =>
        /\ Range(filtered_commits) \subseteq Range(commits_in)
        /\ \A i \in 1..Len(commits_in) :
             commits_in[i] \in Range(filtered_commits) <=> MatchingFilters(commits_in[i]) # {}

sALKey == <<"A", "l", " ", "<", "a", "@", "x", ">">>

\* The upper-case filter "AL" keeps a commit of "Al <a@x>" and drops one of
\* "Bo <b@x>".
C7_Witness ==
    /\ pc = "filtered"
    /\ author_filters = << <<"A", "L">> >>
    /\ \E i, j \in 1..Len(commits_in) :
         /\ AuthorKey(commits_in[i]) = sALKey
         /\ commits_in[i] \in Range(filtered_commits)
         /\ commits_in[j].author = sBo
         /\ commits_in[j] \notin Range(filtered_commits)

RECURSIVE IsSubsequence(_, _)
IsSubsequence(a, b) ==
    IF a = <<>> THEN TRUE
    ELSE IF b = <<>> THEN FALSE
    ELSE IF Head(a) = Head(b) THEN IsSubsequence(Tail(a), Tail(b))
    ELSE IsSubsequence(a, Tail(b))

NewestFirst(s) == \A i, j \in 1..Len(s) : i < j => s[i].date >= s[j].date

\* C8: the filtered list is a subsequence of the input: each input commit is
\* in it at most once, also when several filters match it, nothing else is in
\* it, and the retained commits keep their order, so a newest-first input
\* gives a newest-first output.
C8_FilteredIsSubsequence ==
    pc = "filtered" =>
        /\ IsSubsequence(filtered_commits, commits_in)
        /\ NewestFirst(commits_in) => NewestFirst(filtered_commits)

\* A commit that two filters match, kept once, and another commit dropped.
C8_Witness ==
    /\ pc = "filtered"
    /\ Len(commits_in) = 3
    /\ Len(filtered_commits) = 2
    /\ \E i \in 1..Len(commits_in) : Cardinality(MatchingFilters(commits_in[i])) = 2

Occurrences(s, x) == Cardinality({i \in 1..Len(s) : s[i] = x})

\* C9 (as stated): a commit that several filters match is in the output once
\* and its "author <email>" string is in the match list of every filter that
\* matches it.
C9_RecordedUnderEveryMatchingFilter ==
    pc = "filtered" /\ author_filters # <<>> =>
        \A i \in 1..Len(commits_in) :
            MatchingFilters(commits_in[i]) # {} =>
                /\ Occurrences(filtered_commits, commits_in[i]) = Occurrences(commits_in, commits_in[i])
                /\ \A k \in MatchingFilters(commits_in[i]) :
                     AuthorKey(commits_in[i]) \in Range(matches_dict[author_filters[k]])

\* The first filter in list order that matches c.
FirstMatching(c) == CHOOSE i \in MatchingFilters(c) : \A j \in MatchingFilters(c) : i <= j

\* C10: attribution is first-match-wins: a filter's match list holds exactly
\* the keys of the retained commits whose first matching filter it is; so the
\* lists together hold exactly the keys of the retained commits, and a filter's
\* list holds only keys that filter matches.
C10_FirstMatchWins ==
    pc = "filtered" /\ author_filters # <<>> =>
        /\ \A f \in DOMAIN matches_dict :
             /\ Range(matches_dict[f]) =
                  {AuthorKey(filtered_commits[i]) : i \in
                     {n \in 1..Len(filtered_commits) :
                        author_filters[FirstMatching(filtered_commits[n])] = f}}
             /\ \A k \in 1..Len(matches_dict[f]) :
                  IsSubstring(Lower(f), Lower(matches_dict[f][k]))
        /\ UNION {Range(matches_dict[f]) : f \in DOMAIN matches_dict} =
             {AuthorKey(filtered_commits[i]) : i \in 1..Len(filtered_commits)}

\* Filters "@x" and then "al": the commit of "Al <a@x>" matches both and is
\* listed under "@x" alone.
C10_Witness ==
    /\ pc = "filtered"
    /\ author_filters = << <<"@", "x">>, <<"a", "l">> >>
    /\ \E i \in 1..Len(filtered_commits) : AuthorKey(filtered_commits[i]) = sALKey
    /\ sALKey \in Range(matches_dict[<<"@", "x">>])
    /\ matches_dict[<<"a", "l">>] = <<>>

\* C11: matches_by_filter has exactly the supplied filter strings, as
\* written, as keys; each is mapped to a list without duplicates; a filter
\* that matches no commit is mapped to the empty list; and when no filter
\* matches any commit the call returns an empty filtered list with every list
\* empty.
C11_MatchesByFilterShape ==
    "filter" \in called =>
        /\ DOMAIN matches_dict = Range(author_filters)
        /\ \A f \in DOMAIN matches_dict :
             /\ Cardinality(Range(matches_dict[f])) = Len(matches_dict[f])
             /\ (\A i \in 1..Len(commits_in) : ~FilterMatches(f, commits_in[i]))
                   => matches_dict[f] = <<>>
        /\ (author_filters # <<>> /\ \A i \in 1..Len(commits_in) : MatchingFilters(commits_in[i]) = {})
               => /\ filtered_commits = <<>>
                  /\ \A f \in DOMAIN matches_dict : matches_dict[f] = <<>>

\* Filters "AL" and "zz" on two different commits of "Al <a@x>": one entry
\* under "AL", none under "zz".
C11_Witness ==
    /\ "filter" \in called
    /\ author_filters = << <<"A", "L">>, <<"z", "z">> >>
    /\ Len(filtered_commits) = 2
    /\ filtered_commits[1] # filtered_commits[2]
    /\ matches_dict[<<"A", "L">>] = <<sALKey>>
    /\ matches_dict[<<"z", "z">>] = <<>>

-----------------------------------------------------------------------------
(* Properties of the stateless functions, checked under SpecLib. *)

GroupsOf(c) == { g \in 1..Len(author_commits) : c \in Range(author_commits[g].commits) }

RECURSIVE Flatten(_)
Flatten(gs) == IF gs = <<>> THEN <<>> ELSE Head(gs).commits \o Flatten(Tail(gs))

\* C12: group_commits_by_author partitions its input: every commit is in
\* exactly one group, the one keyed "{author} <{email}>" of that commit; the
\* groups together hold the input's commits, each as often as the input does;
\* no group is empty; commits of identical author and email share a group.
C12_GroupingPartitions ==
    grouped_from = "input" =>
        /\ \A i \in 1..Len(commits_in) :
             /\ Cardinality(GroupsOf(commits_in[i])) = 1
             /\ \A g \in GroupsOf(commits_in[i]) :
                  author_commits[g].key =
                      commits_in[i].author \o <<" ", "<">> \o commits_in[i].email \o <<">">>
        /\ BagOfSeq(Flatten(author_commits)) = BagOfSeq(commits_in)
        /\ \A g \in 1..Len(author_commits) : author_commits[g].commits # <<>>
        /\ \A g, h \in 1..Len(author_commits) :
             author_commits[g].key = author_commits[h].key => g = h
        /\ \A i, j \in 1..Len(commits_in) :
             (commits_in[i].author = commits_in[j].author /\ commits_in[i].email = commits_in[j].email)
                 => GroupsOf(commits_in[i]) = GroupsOf(commits_in[j])

\* Two commits of one author and one of another: two groups, the first of two.
C12_Witness ==
    /\ grouped_from = "input"
    /\ Len(commits_in) = 2
    /\ Len(author_commits) = 1
    /\ Len(author_commits[1].commits) = 2
    /\ author_commits[1].commits[1] # author_commits[1].commits[2]

GroupKeys == { author_commits[g].key : g \in 1..Len(author_commits) }

MatchedKeys == UNION { Range(matches_dict[f]) : f \in DOMAIN matches_dict }

\* C14 (as stated): for any commits and filters, the keys of the groups of the
\* filtered commits are the union of the match sets of matches_by_filter.
C14_AsStated ==
    grouped_from = "filtered" => GroupKeys = MatchedKeys

\* C14: for any commits and any non-empty filter list, the keys of the groups
\* of the filtered commits are the union of the match sets of
\* matches_by_filter; for an empty filter list the filter returns every commit
\* and an empty mapping, so the groups have keys and the match sets have none.
C14_GroupKeysAreMatchedKeys ==
    grouped_from = "filtered" =>
        /\ author_filters # <<>> => GroupKeys = MatchedKeys
        /\ author_filters = <<>> =>
              /\ MatchedKeys = {}
              /\ GroupKeys = { commits_in[i].author \o <<" ", "<">> \o commits_in[i].email \o <<">">> :
                                i \in 1..Len(commits_in) }

\* Two filters, two retained commits of two authors that differ in case only.
C14_Witness ==
    /\ grouped_from = "filtered"
    /\ Len(author_filters) = 2
    /\ Len(author_commits) = 2
    /\ Cardinality(MatchedKeys) = 2
    /\ Len(filtered_commits) = 2

SameDict(d, e) ==
    /\ DOMAIN d = DOMAIN e
    /\ \A f \in DOMAIN d : Range(d[f]) = Range(e[f])

\* C18: a call of validate_repositories, filter_commits_by_authors or
\* group_commits_by_author leaves the path list, the commit list (its
\* commits, with every field, and their order) and the filter list as they
\* were, and a call with the inputs of an earlier call returns what that call
\* returned (a match list is compared by its elements: it lists a set).
C18_StatelessCalls ==
    [][ /\ repo_paths' = repo_paths
        /\ commits_in' = commits_in
        /\ author_filters' = author_filters
        /\ "validate" \in called =>
              (valid_paths' = valid_paths /\ error_messages' = error_messages)
        /\ "filter" \in called =>
              (filtered_commits' = filtered_commits /\ SameDict(matches_dict', matches_dict))
        /\ ("group" \in called /\ grouped_from' = grouped_from) =>
              author_commits' = author_commits ]_vars

\* All three functions were called on non-empty arguments; validation rejected
\* a path and the filter dropped a commit.
C18_Witness ==
    /\ called = {"validate", "filter", "group"}
    /\ Len(valid_paths) < Len(repo_paths)
    /\ error_messages # <<>>
    /\ author_filters # <<>>
    /\ Len(filtered_commits) = 1
    /\ Len(commits_in) = 2
    /\ Len(author_commits) >= 1

-----------------------------------------------------------------------------
(* Properties of the digest command, checked under SpecDigest. *)

\* C13: every group keeps its commits in the order they have in the list that
\* was grouped; in the digest command that list is the aggregated list, or
\* what the author filter kept of it, so every author's group is ordered
\* newest first.
C13_BucketsKeepOrder ==
    summary_mode = "by_author" =>
        \A g \in 1..Len(author_commits) :
            /\ IsSubsequence(author_commits[g].commits, digest_commits)
            /\ NewestFirst(author_commits[g].commits)

\* Two repositories, an author filter, two authors, and a group of several
\* commits of different days.
C13_Witness ==
    /\ summary_mode = "by_author"
    /\ Len(valid_paths) = 2
    /\ "filter" \in called
    /\ Len(digest_commits) < Len(all_commits)
    /\ Len(author_commits) = 2
    /\ \E g \in 1..Len(author_commits) :
         LET b == author_commits[g].commits
         IN  Len(b) >= 3 /\ b[1].date > b[Len(b)].date

\* C15: a run that is left with no commit, after the aggregation or after the
\* author filtering, returns without a summary, and its warning names the
\* author filters when filters were given and the aggregate was not empty,
\* else the repositories when count was given, else the date range; a run
\* with commits gives no warning; a run ends with exit code 1 only without a
\* path, without a valid repository, or when the summarization raised, and a
\* run without a valid repository does nothing else.
C15_EmptyResultIsAnOutcome ==
    /\ pc = "returned" =>
          /\ digest_commits = <<>>
          /\ summary_mode = "none"
          /\ author_commits = <<>>
          /\ warning = IF parsed_authors # <<>> /\ all_commits # <<>> THEN "author_filters"
                       ELSE IF count.k # "none" THEN "any_repository"
                       ELSE "date_range"
    /\ warning # "none" => pc = "returned"
    /\ summary_mode # "none" => digest_commits # <<>>
    /\ pc = "done" => (digest_commits # <<>> /\ summary_mode \in {"by_author", "chronological"})
    /\ pc = "exit1" => (repo_paths = <<>> \/ valid_paths = <<>> \/ summary_mode = "raised")
    /\ (pc # "start" /\ valid_paths = <<>>) => pc \in {"validated", "exit1"}

\* Commits were found and the author filter kept none of them.
C15_Witness ==
    /\ pc = "returned"
    /\ all_commits # <<>>
    /\ "filter" \in called
    /\ warning = "author_filters"
    /\ count # None

NonSpace(t) == {i \in 1..Len(t) : ~IsSpace(t[i])}

Least(S) == CHOOSE x \in S : \A y \in S : x <= y

Greatest(S) == CHOOSE x \in S : \A y \in S : x >= y

Trimmed(t) == IF NonSpace(t) = {} THEN <<>> ELSE SubSeq(t, Least(NonSpace(t)), Greatest(NonSpace(t)))

\* The trimmed non-empty pieces of s behind position lo, a comma or 0.
RECURSIVE PiecesBehind(_, _)
PiecesBehind(s, lo) ==
    LET hi == Least({i \in (lo + 1)..Len(s) : s[i] = ","} \cup {Len(s) + 1})
        t == Trimmed(SubSeq(s, lo + 1, hi - 1))
    IN  (IF t = <<>> THEN <<>> ELSE <<t>>)
        \o (IF hi > Len(s) THEN <<>> ELSE PiecesBehind(s, hi))

RECURSIVE PiecesOfAll(_)
PiecesOfAll(args) ==
    IF args = <<>> THEN <<>> ELSE PiecesBehind(Head(args), 0) \o PiecesOfAll(Tail(args))

\* C19: parse_author_filters returns, in order, the pieces between the commas
\* of every --authors value, trimmed, without those that are empty after
\* trimming; so no filter is empty or starts or ends with whitespace, and the
\* author filter is called only with that list and only when it is not empty.
C19_ParsedFilters ==
    /\ (pc # "start" /\ repo_paths # <<>>) =>
          /\ parsed_authors = PiecesOfAll(authors)
          /\ \A i \in 1..Len(parsed_authors) :
               /\ parsed_authors[i] # <<>>
               /\ ~IsSpace(parsed_authors[i][1])
               /\ ~IsSpace(parsed_authors[i][Len(parsed_authors[i])])
               /\ \A k \in 1..Len(parsed_authors[i]) : parsed_authors[i][k] # ","
    /\ "filter" \in called =>
          /\ author_filters = parsed_authors
          /\ author_filters # <<>>
    /\ (pc \in {"narrowed", "done"} /\ parsed_authors # <<>>) => "filter" \in called

\* --authors " al ,<tab>Bo": the filters "al" and "Bo" reach the author filter.
C19_Witness ==
    /\ "filter" \in called
    /\ Len(authors) = 1
    /\ Len(authors[1]) = 8
    /\ author_filters = << <<"a", "l">>, <<"B", "o">> >>

-----------------------------------------------------------------------------
(* The two pipelines compared, checked under SpecRecap. *)

WithoutRepoName(s) ==
    [i \in 1..Len(s) |->
        [hash |-> s[i].hash, author |-> s[i].author, email |-> s[i].email, date |-> s[i].date,
         message |-> s[i].message, files_changed |-> s[i].files_changed]]

\* C21: for the same repositories and the same since, until, days and count,
\* git_recap's aggregation returns the commits git_digest's aggregation
\* returns, repo_name aside, in the same order, and skips the same
\* repositories, count mode included.
C21_PipelinesEquivalent ==
    pc = "recap_aggregated" =>
        /\ recap_all_commits = WithoutRepoName(all_commits)
        /\ recap_errors_logged = errors_logged
        /\ recap_repo_stats = repo_stats

\* Without count the two aggregations agree.
RecapAgreesWithoutCount ==
    (pc = "recap_aggregated" /\ count = None) =>
        /\ recap_all_commits = WithoutRepoName(all_commits)
        /\ recap_errors_logged = errors_logged
        /\ recap_repo_stats = repo_stats

====
